---- MODULE Spec2Model ----
(***************************************************************************)
(* Model of wasm-babylon-wfc/src/lib.rs: the Wave Function Collapse grid   *)
(* generator behind a process-wide Mutex<WfcState>, and the boundary       *)
(* operations generate_layout, get_tile_at, clear_layout,                  *)
(* set_pre_constraint and clear_pre_constraints.                           *)
(*                                                                         *)
(* The 50x50 arrays are scaled down to Height x Width, and the 10 Voronoi  *)
(* seeds to NumSeeds.  js_random() returns k / RandDenom for a numerator   *)
(* k in 0 .. RandDenom-1; all arithmetic on draws is done on numerators.   *)
(* Option<T> is modelled as a sequence: << >> is None, <<v>> is Some(v).   *)
(***************************************************************************)
EXTENDS Integers, Sequences, FiniteSets, TLC

\* ---------------------------------------------------------------- bounds
Width == 3
Height == 2
NumSeeds == 2
RandDenom == 4
NumCallers == 2

\* ------------------------------------------------------------- constants
\* stand-in for usize::MAX, the initial min_entropy of find_lowest_entropy:
\* larger than every entropy
USIZE_MAX == 2147483647
\* stand-in for f64::MAX, the initial min_dist of the Voronoi scan: larger
\* than every scaled squared distance the model can compute
F64_MAX == 2147483647

None == << >>
Some(v) == <<v>>

\* ---------------------------------------------------------- Tile Catalog
TileType == {"Grass", "Floor", "WallNorth", "WallSouth", "WallEast", "WallWest",
             "CornerNE", "CornerNW", "CornerSE", "CornerSW", "Door"}

\* `tile as i32` (#[repr(i32)] discriminants)
TileAsI32(tile) ==
  CASE tile = "Grass" -> 0
    [] tile = "Floor" -> 1
    [] tile = "WallNorth" -> 2
    [] tile = "WallSouth" -> 3
    [] tile = "WallEast" -> 4
    [] tile = "WallWest" -> 5
    [] tile = "CornerNE" -> 6
    [] tile = "CornerNW" -> 7
    [] tile = "CornerSE" -> 8
    [] tile = "CornerSW" -> 9
    [] tile = "Door" -> 10

\* the match of set_pre_constraint: i32 -> Option<TileType>
TileFromI32(tile_type) ==
  CASE tile_type = 0 -> Some("Grass")
    [] tile_type = 1 -> Some("Floor")
    [] tile_type = 2 -> Some("WallNorth")
    [] tile_type = 3 -> Some("WallSouth")
    [] tile_type = 4 -> Some("WallEast")
    [] tile_type = 5 -> Some("WallWest")
    [] tile_type = 6 -> Some("CornerNE")
    [] tile_type = 7 -> Some("CornerNW")
    [] tile_type = 8 -> Some("CornerSE")
    [] tile_type = 9 -> Some("CornerSW")
    [] tile_type = 10 -> Some("Door")
    [] OTHER -> None

TileEdges(n, s, e, w) == [north |-> n, south |-> s, east |-> e, west |-> w]

get_tile_edges(tile_type) ==
  CASE tile_type = "Grass" -> TileEdges("Grass", "Grass", "Grass", "Grass")
    [] tile_type = "Floor" -> TileEdges("Floor", "Floor", "Floor", "Floor")
    [] tile_type = "WallNorth" -> TileEdges("Empty", "Wall", "Wall", "Wall")
    [] tile_type = "WallSouth" -> TileEdges("Wall", "Empty", "Wall", "Wall")
    [] tile_type = "WallEast" -> TileEdges("Wall", "Wall", "Empty", "Wall")
    [] tile_type = "WallWest" -> TileEdges("Wall", "Wall", "Wall", "Empty")
    [] tile_type = "CornerNE" -> TileEdges("Empty", "Wall", "Empty", "Wall")
    [] tile_type = "CornerNW" -> TileEdges("Empty", "Wall", "Wall", "Empty")
    [] tile_type = "CornerSE" -> TileEdges("Wall", "Empty", "Empty", "Wall")
    [] tile_type = "CornerSW" -> TileEdges("Wall", "Empty", "Wall", "Empty")
    [] tile_type = "Door" -> TileEdges("Door", "Door", "Door", "Door")

\* mutant of edges_compatible: open ground may touch floor
edges_compatible_GrassFloor(edge1, edge2) ==
  edge1 = edge2 \/ {edge1, edge2} = {"Grass", "Floor"}

edges_compatible(edge1, edge2) == edge1 = edge2

\* ------------------------------------------------------------- Wave Cell
WaveCell_new ==
  <<"Grass", "Floor", "WallNorth", "WallSouth", "WallEast", "WallWest",
    "CornerNE", "CornerNW", "CornerSE", "CornerSW", "Door">>

entropy(possible_tiles) == Len(possible_tiles)

remove_tile(possible_tiles, tile) ==
  SelectSeq(possible_tiles, LAMBDA t : t # tile)

\* mutant of collapse: the draw is truncated before it is scaled, so the
\* index is always 0
collapse_TruncatesDraw(possible_tiles, r) ==
  IF Len(possible_tiles) = 0
    THEN [tile |-> None, possible_tiles |-> possible_tiles]
    ELSE LET index == (r \div RandDenom) * Len(possible_tiles)
             tile == possible_tiles[index + 1]
         IN [tile |-> Some(tile), possible_tiles |-> <<tile>>]

\* collapse with the draw r / RandDenom: the chosen Option<TileType> and
\* the possible_tiles left behind
collapse(possible_tiles, r) ==
  IF Len(possible_tiles) = 0
    THEN [tile |-> None, possible_tiles |-> possible_tiles]
    ELSE LET index == (r * Len(possible_tiles)) \div RandDenom
             tile == possible_tiles[index + 1]
         IN [tile |-> Some(tile), possible_tiles |-> <<tile>>]

\* ------------------------------------------------- Voronoi grass regions
\* draws: the 3 * num_seeds numerators js_random() returns, in call order
\* (x, y, is_grass for each seed).  Seed coordinates and distances are kept
\* scaled by RandDenom (resp. RandDenom^2) so that they stay integers.
VoronoiSeed(draws, i, width, height) ==
  [x |-> draws[3 * (i - 1) + 1] * width,
   y |-> draws[3 * (i - 1) + 2] * height,
   is_grass |-> draws[3 * (i - 1) + 3] * 10 < 4 * RandDenom]

RECURSIVE ClosestIsGrass(_, _, _, _, _, _)
ClosestIsGrass(seeds, i, x, y, min_dist, closest_is_grass) ==
  IF i > Len(seeds)
    THEN closest_is_grass
    ELSE LET dx == x * RandDenom - seeds[i].x
             dy == y * RandDenom - seeds[i].y
             dist == dx * dx + dy * dy
         IN IF dist < min_dist
              THEN ClosestIsGrass(seeds, i + 1, x, y, dist, seeds[i].is_grass)
              ELSE ClosestIsGrass(seeds, i + 1, x, y, min_dist, closest_is_grass)

generate_voronoi_grass(width, height, num_seeds, draws) ==
  LET seeds == [i \in 1 .. num_seeds |-> VoronoiSeed(draws, i, width, height)]
  IN [y \in 0 .. height - 1 |->
        [x \in 0 .. width - 1 |-> ClosestIsGrass(seeds, 1, x, y, F64_MAX, FALSE)]]

\* -------------------------------------------------------------- WfcState
Rows == 0 .. Height - 1
Cols == 0 .. Width - 1

WfcState_new ==
  [grid |-> [y \in Rows |-> [x \in Cols |-> None]],
   wave |-> [y \in Rows |-> [x \in Cols |-> WaveCell_new]],
   pre_constraints |-> [y \in Rows |-> [x \in Cols |-> None]],
   width |-> Width,
   height |-> Height]

\* mutant of WfcState_clear: the wave cells are not reinitialized
WfcState_clear_KeepsWave(st) ==
  [st EXCEPT !.grid = [y \in Rows |-> [x \in Cols |-> None]],
             !.pre_constraints = [y \in Rows |-> [x \in Cols |-> None]]]

\* mutant of WfcState_clear: the grid is not emptied
WfcState_clear_KeepsGrid(st) ==
  [st EXCEPT !.pre_constraints = [y \in Rows |-> [x \in Cols |-> None]],
             !.wave = [y \in Rows |-> [x \in Cols |-> WaveCell_new]]]

WfcState_clear(st) ==
  [st EXCEPT !.grid = [y \in Rows |-> [x \in Cols |-> None]],
             !.pre_constraints = [y \in Rows |-> [x \in Cols |-> None]],
             !.wave = [y \in Rows |-> [x \in Cols |-> WaveCell_new]]]

\* mutant of WfcState_set_pre_constraint: off-by-one upper bounds
WfcState_set_pre_constraint_OffByOne(st, x, y, tile_type) ==
  IF x >= 0 /\ x <= st.width /\ y >= 0 /\ y <= st.height
    THEN [state |-> [st EXCEPT !.pre_constraints[y][x] = Some(tile_type)],
          result |-> TRUE]
    ELSE [state |-> st, result |-> FALSE]

\* the state after the call and the bool it returns
WfcState_set_pre_constraint(st, x, y, tile_type) ==
  IF x >= 0 /\ x < st.width /\ y >= 0 /\ y < st.height
    THEN [state |-> [st EXCEPT !.pre_constraints[y][x] = Some(tile_type)],
          result |-> TRUE]
    ELSE [state |-> st, result |-> FALSE]

\* mutant of WfcState_clear_pre_constraints: clears the whole state
WfcState_clear_pre_constraints_All(st) ==
  [st EXCEPT !.grid = [y \in Rows |-> [x \in Cols |-> None]],
             !.pre_constraints = [y \in Rows |-> [x \in Cols |-> None]],
             !.wave = [y \in Rows |-> [x \in Cols |-> WaveCell_new]]]

WfcState_clear_pre_constraints(st) ==
  [st EXCEPT !.pre_constraints = [y \in Rows |-> [x \in Cols |-> None]]]

WfcState_get_tile(st, x, y) ==
  IF x >= 0 /\ x < st.width /\ y >= 0 /\ y < st.height
    THEN st.grid[y][x]
    ELSE None

\* mutant of LowestEntropyScan: a later cell of equal entropy replaces the
\* best position
RECURSIVE LowestEntropyScan_LastTie(_, _, _, _)
LowestEntropyScan_LastTie(st, i, min_entropy, best_pos) ==
  IF i >= st.width * st.height
    THEN best_pos
    ELSE LET x == i % st.width
             y == i \div st.width
         IN IF st.grid[y][x] # None
              THEN LowestEntropyScan_LastTie(st, i + 1, min_entropy, best_pos)
              ELSE LET e == entropy(st.wave[y][x])
                   IN IF e > 0 /\ e <= min_entropy
                        THEN LowestEntropyScan_LastTie(st, i + 1, e, Some(<<x, y>>))
                        ELSE LowestEntropyScan_LastTie(st, i + 1, min_entropy, best_pos)

\* mutant of LowestEntropyScan: cells of entropy 0 are not skipped
RECURSIVE LowestEntropyScan_TakesEmpty(_, _, _, _)
LowestEntropyScan_TakesEmpty(st, i, min_entropy, best_pos) ==
  IF i >= st.width * st.height
    THEN best_pos
    ELSE LET x == i % st.width
             y == i \div st.width
         IN IF st.grid[y][x] # None
              THEN LowestEntropyScan_TakesEmpty(st, i + 1, min_entropy, best_pos)
              ELSE LET e == entropy(st.wave[y][x])
                   IN IF e < min_entropy
                        THEN LowestEntropyScan_TakesEmpty(st, i + 1, e, Some(<<x, y>>))
                        ELSE LowestEntropyScan_TakesEmpty(st, i + 1, min_entropy, best_pos)

\* the row-major scan of find_lowest_entropy from cell number i on
RECURSIVE LowestEntropyScan(_, _, _, _)
LowestEntropyScan(st, i, min_entropy, best_pos) ==
  IF i >= st.width * st.height
    THEN best_pos
    ELSE LET x == i % st.width
             y == i \div st.width
         IN IF st.grid[y][x] # None
              THEN LowestEntropyScan(st, i + 1, min_entropy, best_pos)
              ELSE LET e == entropy(st.wave[y][x])
                   IN IF e > 0 /\ e < min_entropy
                        THEN LowestEntropyScan(st, i + 1, e, Some(<<x, y>>))
                        ELSE LowestEntropyScan(st, i + 1, min_entropy, best_pos)

find_lowest_entropy(st) == LowestEntropyScan(st, 0, USIZE_MAX, None)

\* mutant of FacingEdge: compares the neighbour's edge on the far side
FacingEdge_FarSide(possible_tile, side) ==
  LET possible_edges == get_tile_edges(possible_tile)
  IN CASE side = "south" -> possible_edges.north
       [] side = "north" -> possible_edges.south
       [] side = "west" -> possible_edges.east
       [] side = "east" -> possible_edges.west

\* the neighbour-side edge that faces the propagating cell
FacingEdge(possible_tile, side) ==
  LET possible_edges == get_tile_edges(possible_tile)
  IN CASE side = "south" -> possible_edges.south
       [] side = "north" -> possible_edges.north
       [] side = "west" -> possible_edges.west
       [] side = "east" -> possible_edges.east

Max(a, b) == IF a >= b THEN a ELSE b

\* One invocation of propagate_constraints(x, y), entered at recursion depth
\* `depth`: the state it leaves and the deepest recursion level it reached.
RECURSIVE PropagateFrom(_, _, _, _)

\* mutant of PropagateTo: the neighbour is narrowed even when it is resolved
PropagateTo_NoResolvedGuard(run, neighbor_x, neighbor_y, side, edge, depth) ==
  LET possible_tiles == run.st.wave[neighbor_y][neighbor_x]
      kept == SelectSeq(possible_tiles,
                LAMBDA possible_tile :
                  edges_compatible(FacingEdge(possible_tile, side), edge))
      changed == kept # possible_tiles
      st2 == [run.st EXCEPT !.wave[neighbor_y][neighbor_x] = kept]
  IN IF changed
       THEN LET sub == PropagateFrom(st2, neighbor_x, neighbor_y, depth + 1)
            IN [st |-> sub.st, depth |-> Max(run.depth, sub.depth)]
       ELSE run

\* one of the four direction blocks of propagate_constraints: narrow the
\* neighbour (neighbor_x, neighbor_y), whose edge `side` faces the edge
\* `edge` of the propagating cell, and recurse when something was removed
PropagateTo(run, neighbor_x, neighbor_y, side, edge, depth) ==
  IF run.st.grid[neighbor_y][neighbor_x] = None
    THEN LET possible_tiles == run.st.wave[neighbor_y][neighbor_x]
             kept == SelectSeq(possible_tiles,
                       LAMBDA possible_tile :
                         edges_compatible(FacingEdge(possible_tile, side), edge))
             changed == kept # possible_tiles
             st2 == [run.st EXCEPT !.wave[neighbor_y][neighbor_x] = kept]
         IN IF changed
              THEN LET sub == PropagateFrom(st2, neighbor_x, neighbor_y, depth + 1)
                   IN [st |-> sub.st, depth |-> Max(run.depth, sub.depth)]
              ELSE run
    ELSE run

\* mutant of PropagateFrom: the west neighbour is left out
PropagateFrom_NoWest(st, x, y, depth) ==
  IF st.grid[y][x] = None
    THEN [st |-> st, depth |-> depth]
    ELSE LET edges == get_tile_edges(st.grid[y][x][1])
             s0 == [st |-> st, depth |-> depth]
             s1 == IF y > 0
                     THEN PropagateTo(s0, x, y - 1, "south", edges.north, depth)
                     ELSE s0
             s2 == IF y < st.height - 1
                     THEN PropagateTo(s1, x, y + 1, "north", edges.south, depth)
                     ELSE s1
             s3 == IF x < st.width - 1
                     THEN PropagateTo(s2, x + 1, y, "west", edges.east, depth)
                     ELSE s2
         IN s3

PropagateFrom(st, x, y, depth) ==
  IF st.grid[y][x] = None
    THEN [st |-> st, depth |-> depth]
    ELSE LET edges == get_tile_edges(st.grid[y][x][1])
             s0 == [st |-> st, depth |-> depth]
             s1 == IF y > 0
                     THEN PropagateTo(s0, x, y - 1, "south", edges.north, depth)
                     ELSE s0
             s2 == IF y < st.height - 1
                     THEN PropagateTo(s1, x, y + 1, "north", edges.south, depth)
                     ELSE s1
             s3 == IF x < st.width - 1
                     THEN PropagateTo(s2, x + 1, y, "west", edges.east, depth)
                     ELSE s2
             s4 == IF x > 0
                     THEN PropagateTo(s3, x - 1, y, "east", edges.west, depth)
                     ELSE s3
         IN s4

\* a top-level call: the state it leaves and the recursion depth it reached
propagate_constraints(st, x, y) == PropagateFrom(st, x, y, 1)

NoPropagation(st) == [st |-> st, depth |-> 0]

\* mutant of SeedCell: Grass is not removed from the cells off the mask
SeedCell_KeepsGrass(st, grass, x, y) ==
  IF st.pre_constraints[y][x] # None
    THEN LET pre_tile == st.pre_constraints[y][x][1]
         IN [st EXCEPT !.grid[y][x] = Some(pre_tile),
                       !.wave[y][x] = <<pre_tile>>]
    ELSE IF grass[y][x]
           THEN [st EXCEPT !.grid[y][x] = Some("Grass"),
                           !.wave[y][x] = <<"Grass">>]
           ELSE st

\* mutant of SeedCell: a grass cell is resolved but its wave cell is kept
SeedCell_GrassKeepsWave(st, grass, x, y) ==
  IF st.pre_constraints[y][x] # None
    THEN LET pre_tile == st.pre_constraints[y][x][1]
         IN [st EXCEPT !.grid[y][x] = Some(pre_tile),
                       !.wave[y][x] = <<pre_tile>>]
    ELSE IF grass[y][x]
           THEN [st EXCEPT !.grid[y][x] = Some("Grass")]
           ELSE [st EXCEPT !.wave[y][x] = remove_tile(st.wave[y][x], "Grass")]

\* the body of the seeding loop of generate_layout for the cell (x, y)
SeedCell(st, grass, x, y) ==
  IF st.pre_constraints[y][x] # None
    THEN LET pre_tile == st.pre_constraints[y][x][1]
         IN [st EXCEPT !.grid[y][x] = Some(pre_tile),
                       !.wave[y][x] = <<pre_tile>>]
    ELSE IF grass[y][x]
           THEN [st EXCEPT !.grid[y][x] = Some("Grass"),
                           !.wave[y][x] = <<"Grass">>]
           ELSE [st EXCEPT !.wave[y][x] = remove_tile(st.wave[y][x], "Grass")]

\* The bodies below call propagate_constraints: each gives the state it
\* leaves and the recursion depth of its propagation (0 when it made none).

\* mutant of PropagateCell: the initial propagation pass does nothing
PropagateCell_Skipped(st, x, y) == NoPropagation(st)

\* the body of the initial propagation loop for the cell (x, y)
PropagateCell(st, x, y) ==
  IF st.grid[y][x] # None THEN propagate_constraints(st, x, y)
                          ELSE NoPropagation(st)

\* mutant of FloorFallback: the wave cell is not set to the singleton
FloorFallback_KeepsWave(st, x, y) ==
  propagate_constraints([st EXCEPT !.grid[y][x] = Some("Floor")], x, y)

\* the floor fallback, used by the final sweep and by the collapse branch
FloorFallback(st, x, y) ==
  propagate_constraints([st EXCEPT !.grid[y][x] = Some("Floor"),
                                   !.wave[y][x] = <<"Floor">>], x, y)

\* mutant of CollapseCell: the collapsed tile is not stored in the grid
CollapseCell_NoStore(st, x, y, r) ==
  LET c == collapse(st.wave[y][x], r)
  IN IF c.tile # None
       THEN propagate_constraints([st EXCEPT !.wave[y][x] = c.possible_tiles], x, y)
       ELSE FloorFallback(st, x, y)

\* the body of the main loop once find_lowest_entropy gave (x, y), with the
\* draw r / RandDenom for collapse
CollapseCell(st, x, y, r) ==
  LET c == collapse(st.wave[y][x], r)
  IN IF c.tile # None
       THEN propagate_constraints([st EXCEPT !.wave[y][x] = c.possible_tiles,
                                             !.grid[y][x] = c.tile], x, y)
       ELSE FloorFallback(st, x, y)

\* mutant of SweepCell: the sweep forces every cell, resolved or not
SweepCell_ForcesAll(st, x, y) == FloorFallback(st, x, y)

\* mutant of SweepCell: the sweep leaves unresolved cells alone
SweepCell_NoFallback(st, x, y) == NoPropagation(st)

\* the body of the final sweep for the cell (x, y)
SweepCell(st, x, y) ==
  IF st.grid[y][x] = None THEN FloorFallback(st, x, y) ELSE NoPropagation(st)

\* mutant of GetTileAtResult: an empty cell reads as tile code 0
GetTileAtResult_ZeroSentinel(st, x, y) ==
  LET tile == WfcState_get_tile(st, x, y)
  IN IF tile # None THEN TileAsI32(tile[1]) ELSE 0

\* get_tile_at: the i32 it returns
GetTileAtResult(st, x, y) ==
  LET tile == WfcState_get_tile(st, x, y)
  IN IF tile # None THEN TileAsI32(tile[1]) ELSE -1

\* set_pre_constraint: the state it leaves and the bool it returns
SetPreConstraintResult(st, x, y, tile_type) ==
  LET tile == TileFromI32(tile_type)
  IN IF tile = None
       THEN [state |-> st, result |-> FALSE]
       ELSE WfcState_set_pre_constraint(st, x, y, tile[1])

\* ------------------------------------------------------------ the system
VARIABLES
  state,        \* WFC_STATE: the WfcState inside the mutex
  lock,         \* the caller holding the mutex, 0 when it is free
  pc,           \* where each caller is inside its boundary operation
  cur,          \* generate_layout: the cell number (y * width + x) of its loops
  grass_map,    \* generate_layout: the Voronoi mask of the run
  ret,          \* the operation that is returning and its return value
  used,         \* number of js_random() calls of the latest generate_layout
  depth,        \* history: recursion depth of the last step's propagation
  pre_at_call,  \* history: pre_constraints when generate_layout was called
  forced,       \* history: cells the running generate_layout set by fallback
  tape,         \* history: the draws of the recorded run
  mode,         \* "free", or "record" / "replay" of the draws
  saved         \* history: the outcome of the recorded run

vars == <<state, lock, pc, cur, grass_map, ret, used, depth, pre_at_call,
          forced, tape, mode, saved>>

Callers == 1 .. NumCallers
RandomDraws == 0 .. RandDenom - 1
\* the two extreme draws, for the runs that are recorded and replayed
ReplayDraws == {0, RandDenom - 1}
NumCells == Width * Height

\* arguments the callers pass
XInputs == -1 .. Width
YInputs == -1 .. Height
PinInputs == {<<0, 0>>, <<Width - 1, Height - 1>>,
              <<-1, 0>>, <<Width, 0>>, <<0, -1>>, <<0, Height>>}
CodeInputs == {-1, 0, 10, 11}

NoRet == [op |-> "none", val |-> << >>]
NoGrass == [y \in Rows |-> [x \in Cols |-> FALSE]]
NoPre == [y \in Rows |-> [x \in Cols |-> None]]
NoSaved == [grid |-> NoPre, used |-> 0, pre |-> NoPre]

InitVars(m) ==
  /\ state = WfcState_new
  /\ lock = 0
  /\ pc = [t \in Callers |-> "idle"]
  /\ cur = [t \in Callers |-> 0]
  /\ grass_map = [t \in Callers |-> NoGrass]
  /\ ret = NoRet
  /\ used = 0
  /\ depth = 0
  /\ pre_at_call = NoPre
  /\ forced = {}
  /\ tape = << >>
  /\ mode = m
  /\ saved = NoSaved

Init == InitVars("free")

\* mutant of Lock: the caller does not wait for the mutex
Lock_NoWait(t) ==
  /\ pc[t] = "idle"
  /\ lock' = t

\* WFC_STATE.lock().unwrap() by an idle caller: blocks while the mutex is held
Lock(t) ==
  /\ pc[t] = "idle"
  /\ lock = 0
  /\ lock' = t

\* n calls of js_random() returning d[1] .. d[n], drawn from S
JsRandom(S, n, d) ==
  /\ d \in [1 .. n -> S]
  /\ mode = "replay" =>
       \A i \in 1 .. n : used + i <= Len(tape) => d[i] = tape[used + i]
  /\ used' = used + n
  /\ tape' = IF mode = "record" THEN tape \o d ELSE tape

\* the MutexGuard is dropped and the operation returns
Return(t) ==
  /\ pc[t] = "return"
  /\ pc' = [pc EXCEPT ![t] = "idle"]
  /\ lock' = 0
  /\ ret' = NoRet
  /\ cur' = [cur EXCEPT ![t] = 0]
  /\ grass_map' = [grass_map EXCEPT ![t] = NoGrass]
  /\ depth' = 0
  /\ pre_at_call' = NoPre
  /\ forced' = {}
  /\ IF mode = "record" /\ ret.op = "generate_layout"
       THEN /\ mode' = "replay"
            /\ saved' = [grid |-> state.grid, used |-> used, pre |-> pre_at_call]
       ELSE UNCHANGED <<mode, saved>>
  /\ UNCHANGED <<state, used, tape>>

get_tile_at(t, x, y) ==
  /\ Lock(t)
  /\ ret' = [op |-> "get_tile_at", val |-> <<GetTileAtResult(state, x, y)>>]
  /\ pc' = [pc EXCEPT ![t] = "return"]
  /\ UNCHANGED <<state, cur, grass_map, used, depth, pre_at_call, forced,
                 tape, mode, saved>>

clear_layout(t) ==
  /\ Lock(t)
  /\ state' = WfcState_clear(state)
  /\ ret' = [op |-> "clear_layout", val |-> << >>]
  /\ pc' = [pc EXCEPT ![t] = "return"]
  /\ UNCHANGED <<cur, grass_map, used, depth, pre_at_call, forced, tape, mode, saved>>

set_pre_constraint(t, x, y, tile_type) ==
  /\ Lock(t)
  /\ LET r == SetPreConstraintResult(state, x, y, tile_type)
     IN /\ ret' = [op |-> "set_pre_constraint", val |-> <<r.result>>]
        /\ state' = r.state
  /\ pc' = [pc EXCEPT ![t] = "return"]
  /\ UNCHANGED <<cur, grass_map, used, depth, pre_at_call, forced, tape, mode, saved>>

clear_pre_constraints(t) ==
  /\ Lock(t)
  /\ state' = WfcState_clear_pre_constraints(state)
  /\ ret' = [op |-> "clear_pre_constraints", val |-> << >>]
  /\ pc' = [pc EXCEPT ![t] = "return"]
  /\ UNCHANGED <<cur, grass_map, used, depth, pre_at_call, forced, tape, mode, saved>>

\* generate_layout: lock and state.clear()
generate_begin(t) ==
  /\ Lock(t)
  /\ pre_at_call' = state.pre_constraints
  /\ state' = WfcState_clear(state)
  /\ pc' = [pc EXCEPT ![t] = "voronoi"]
  /\ used' = 0
  /\ depth' = 0
  /\ forced' = {}
  /\ tape' = IF mode = "record" THEN << >> ELSE tape
  /\ UNCHANGED <<cur, grass_map, ret, mode, saved>>

\* generate_layout: the Voronoi pass
generate_voronoi(t, S) ==
  /\ pc[t] = "voronoi"
  /\ \E d \in [1 .. 3 * NumSeeds -> S] :
       /\ JsRandom(S, 3 * NumSeeds, d)
       /\ grass_map' = [grass_map EXCEPT ![t] =
            generate_voronoi_grass(state.width, state.height, NumSeeds, d)]
  /\ pc' = [pc EXCEPT ![t] = "seed"]
  /\ cur' = [cur EXCEPT ![t] = 0]
  /\ UNCHANGED <<state, lock, ret, depth, pre_at_call, forced, mode, saved>>

\* the cursor after cell number i of a row-major loop, and the phase after it
Advance(t, i, next) ==
  IF i + 1 >= NumCells
    THEN /\ pc' = [pc EXCEPT ![t] = next]
         /\ cur' = [cur EXCEPT ![t] = 0]
    ELSE /\ cur' = [cur EXCEPT ![t] = i + 1]
         /\ pc' = pc

\* generate_layout: one cell of the seeding pass
generate_seed(t) ==
  /\ pc[t] = "seed"
  /\ LET i == cur[t]
     IN /\ state' = SeedCell(state, grass_map[t], i % state.width, i \div state.width)
        /\ Advance(t, i, "propagate")
  /\ UNCHANGED <<lock, grass_map, ret, used, depth, pre_at_call, forced,
                 tape, mode, saved>>

\* generate_layout: one cell of the initial propagation pass
generate_propagate(t) ==
  /\ pc[t] = "propagate"
  /\ LET i == cur[t]
         run == PropagateCell(state, i % state.width, i \div state.width)
     IN /\ state' = run.st
        /\ depth' = run.depth
        /\ Advance(t, i, "loop")
  /\ UNCHANGED <<lock, grass_map, ret, used, pre_at_call, forced, tape, mode, saved>>

\* generate_layout: one iteration of the main loop that collapses a cell
generate_collapse(t, S) ==
  /\ pc[t] = "loop"
  /\ \E y \in Rows, x \in Cols :
       /\ find_lowest_entropy(state) = Some(<<x, y>>)
       /\ \E n \in {IF Len(state.wave[y][x]) = 0 THEN 0 ELSE 1} :
            /\ \E d \in [1 .. n -> S] :
                 /\ JsRandom(S, n, d)
                 /\ \E run \in {CollapseCell(state, x, y, IF n = 0 THEN 0 ELSE d[1])} :
                      /\ state' = run.st
                      /\ depth' = run.depth
            /\ forced' = IF n = 0 THEN forced \cup {<<x, y>>} ELSE forced
  /\ UNCHANGED <<lock, pc, cur, grass_map, ret, pre_at_call, mode, saved>>

\* generate_layout: find_lowest_entropy finds nothing, the main loop ends
generate_loop_exit(t) ==
  /\ pc[t] = "loop"
  /\ find_lowest_entropy(state) = None
  /\ pc' = [pc EXCEPT ![t] = "sweep"]
  /\ cur' = [cur EXCEPT ![t] = 0]
  /\ depth' = 0
  /\ UNCHANGED <<state, lock, grass_map, ret, used, pre_at_call, forced,
                 tape, mode, saved>>

\* generate_layout: one cell of the final sweep; after the last it returns
generate_sweep(t) ==
  /\ pc[t] = "sweep"
  /\ LET i == cur[t]
         x == i % state.width
         y == i \div state.width
         run == SweepCell(state, x, y)
     IN /\ state' = run.st
        /\ depth' = run.depth
        /\ forced' = IF state.grid[y][x] = None THEN forced \cup {<<x, y>>} ELSE forced
        /\ Advance(t, i, "return")
        /\ ret' = IF i + 1 >= NumCells
                    THEN [op |-> "generate_layout", val |-> << >>]
                    ELSE ret
  /\ UNCHANGED <<lock, grass_map, used, pre_at_call, tape, mode, saved>>

\* the steps of a generate_layout call that has the lock
GenerateStep(t, S) ==
  \/ generate_voronoi(t, S)
  \/ generate_seed(t)
  \/ generate_propagate(t)
  \/ generate_collapse(t, S)
  \/ generate_loop_exit(t)
  \/ generate_sweep(t)

Next ==
  \E t \in Callers :
    \/ generate_begin(t)
    \/ generate_voronoi(t, RandomDraws)
    \/ generate_seed(t)
    \/ generate_propagate(t)
    \/ generate_collapse(t, RandomDraws)
    \/ generate_loop_exit(t)
    \/ generate_sweep(t)
    \/ \E x \in XInputs, y \in YInputs : get_tile_at(t, x, y)
    \/ clear_layout(t)
    \/ \E p \in PinInputs, c \in CodeInputs : set_pre_constraint(t, p[1], p[2], c)
    \/ clear_pre_constraints(t)
    \/ Return(t)

Spec == Init /\ [][Next]_vars

\* Termination is checked with the callers' arguments cut down to one
\* pre-constraint.  A caller inside an operation is never suspended for
\* ever: the operations are synchronous CPU-bound code.
NextLive ==
  \E t \in Callers :
    \/ generate_begin(t)
    \/ generate_voronoi(t, RandomDraws)
    \/ generate_seed(t)
    \/ generate_propagate(t)
    \/ generate_collapse(t, RandomDraws)
    \/ generate_loop_exit(t)
    \/ generate_sweep(t)
    \/ clear_layout(t)
    \/ set_pre_constraint(t, 0, 0, 10)
    \/ clear_pre_constraints(t)
    \/ Return(t)

FairSpec ==
  /\ Init
  /\ [][NextLive]_vars
  /\ \A t \in Callers : WF_vars(GenerateStep(t, RandomDraws) \/ Return(t))

\* Two runs on the same draws: the first generate_layout records its
\* draws, every later one replays them.
InitDet == InitVars("record")

NextDet ==
  \/ generate_begin(1)
  \/ generate_voronoi(1, ReplayDraws)
  \/ generate_seed(1)
  \/ generate_propagate(1)
  \/ generate_collapse(1, ReplayDraws)
  \/ generate_loop_exit(1)
  \/ generate_sweep(1)
  \/ clear_layout(1)
  \/ set_pre_constraint(1, 0, 0, 10)
  \/ clear_pre_constraints(1)
  \/ Return(1)

SpecDet == InitDet /\ [][NextDet]_vars

\* ---------------------------------------------------------------- claims
\* generate_layout has run to its end and is about to return
GenerateReturned ==
  \E t \in Callers : pc[t] = "return" /\ ret.op = "generate_layout"

Resolved(x, y) == state.grid[y][x] # None
EdgesOf(x, y) == get_tile_edges(state.grid[y][x][1])

\* the touching edges of (x, y) and its east neighbour are equal
EastMatches(x, y) ==
  (Resolved(x, y) /\ Resolved(x + 1, y)) =>
     EdgesOf(x, y).east = EdgesOf(x + 1, y).west

\* the touching edges of (x, y) and its south neighbour are equal
SouthMatches(x, y) ==
  (Resolved(x, y) /\ Resolved(x, y + 1)) =>
     EdgesOf(x, y).south = EdgesOf(x, y + 1).north

\* C1 (as claimed): a recorded pre-constraint stays recorded (possibly
\* overwritten at its cell) in every step except a clear_pre_constraints
\* call: neither clear_layout nor generate_layout removes it.
C1_PreConstraintsSurvive ==
  [][ \/ ret'.op = "clear_pre_constraints"
      \/ \A y \in Rows, x \in Cols :
           state.pre_constraints[y][x] # None =>
             state'.pre_constraints[y][x] # None ]_vars

\* C2 (as claimed): when generate_layout returns, every cell that held a
\* pre-constraint v when it was called reads back as v through get_tile_at,
\* whatever the grass mask.
C2_PreConstraintHonored ==
  GenerateReturned =>
    \A y \in Rows, x \in Cols :
      pre_at_call[y][x] # None =>
        GetTileAtResult(state, x, y) = TileAsI32(pre_at_call[y][x][1])

\* C3 (as claimed): when generate_layout returns, the touching edge labels
\* of every pair of 4-adjacent cells are equal.
C3_AllEdgesCompatible ==
  GenerateReturned =>
    /\ \A y \in Rows, x \in 0 .. Width - 2 : EastMatches(x, y)
    /\ \A y \in 0 .. Height - 2, x \in Cols : SouthMatches(x, y)

\* C3 (amended): when generate_layout returns, the touching edge labels of
\* every pair of 4-adjacent cells are equal unless one of the two cells was
\* force-resolved to Floor by the fallback.
C3_EdgesCompatibleUnlessForced ==
  GenerateReturned =>
    /\ \A y \in Rows, x \in 0 .. Width - 2 :
         (<<x, y>> \notin forced /\ <<x + 1, y>> \notin forced) => EastMatches(x, y)
    /\ \A y \in 0 .. Height - 2, x \in Cols :
         (<<x, y>> \notin forced /\ <<x, y + 1>> \notin forced) => SouthMatches(x, y)

\* a run that forced some cell and also collapsed two adjacent cells to
\* wall tiles, horizontally and vertically
C3_Witness ==
  /\ GenerateReturned
  /\ forced # {}
  /\ \E y \in Rows, x \in 0 .. Width - 2 :
       /\ <<x, y>> \notin forced /\ <<x + 1, y>> \notin forced
       /\ EdgesOf(x, y).east \in {"Wall", "Empty"}
  /\ \E y \in 0 .. Height - 2, x \in Cols :
       /\ <<x, y>> \notin forced /\ <<x, y + 1>> \notin forced
       /\ EdgesOf(x, y).south \in {"Wall", "Empty"}

\* C4: when generate_layout returns, get_tile_at gives a tile code in
\* 0 .. 10, never -1, for every cell of the grid.
C4_TotalCoverage ==
  GenerateReturned =>
    \A y \in Rows, x \in Cols : GetTileAtResult(state, x, y) \in 0 .. 10

\* a finished run in which the fallback resolved a cell and collapse another
C4_Witness ==
  /\ GenerateReturned
  /\ forced # {}
  /\ used > 3 * NumSeeds

GenerateRunning(t) == pc[t] \in {"voronoi", "seed", "propagate", "loop", "sweep"}

UnresolvedCount(st) ==
  Cardinality({c \in Rows \X Cols : st.grid[c[1]][c[2]] = None})

AllResolved == \A y \in Rows, x \in Cols : Resolved(x, y)

\* C5: a generate_layout call always runs to its return; each iteration of
\* the main loop that collapses a cell leaves exactly one unresolved cell
\* fewer; and propagate_constraints never recurses deeper than two levels.
C5_GenerateTerminates ==
  /\ \A t \in Callers :
       GenerateRunning(t) ~> (pc[t] = "return" /\ ret.op = "generate_layout")
  /\ [][\A t \in Callers :
          (pc[t] = "loop" /\ pc'[t] = "loop") =>
             UnresolvedCount(state') = UnresolvedCount(state) - 1]_vars
  /\ [](depth <= 2)

\* the main loop has collapsed a cell and the propagation from it recursed
C5_Witness ==
  \E t \in Callers : pc[t] = "loop" /\ used > 3 * NumSeeds /\ depth = 2

\* C6: set_pre_constraint with x < 0, x >= width, y < 0, y >= height or a
\* tile code outside 0 .. 10 returns false and leaves pre_constraints, grid
\* and wave as they were.
C6_BoundsRejection ==
  [][\A t \in Callers, p \in PinInputs, c \in CodeInputs :
       ( /\ set_pre_constraint(t, p[1], p[2], c)
         /\ \/ p[1] < 0 \/ p[1] >= Width
            \/ p[2] < 0 \/ p[2] >= Height
            \/ c \notin 0 .. 10 )
       => (ret'.val = <<FALSE>> /\ state' = state)]_vars

\* a rejected set_pre_constraint on a state that holds a pre-constraint and
\* a generated layout
C6_Witness ==
  /\ ret.op = "set_pre_constraint"
  /\ ret.val = <<FALSE>>
  /\ \E y \in Rows, x \in Cols : state.pre_constraints[y][x] # None
  /\ AllResolved

\* C7: at most one caller is inside a boundary operation at any time, and
\* it is the one holding the mutex: no operation runs while another caller
\* is part-way through generate_layout.
C7_MutualExclusion ==
  /\ \A t1, t2 \in Callers : t1 # t2 => (pc[t1] = "idle" \/ pc[t2] = "idle")
  /\ \A t \in Callers : pc[t] # "idle" <=> lock = t

\* a caller is inside the main loop of generate_layout, the grid part-way
\* resolved, while another caller is idle
C7_Witness ==
  \E t1, t2 \in Callers :
    /\ t1 # t2
    /\ pc[t1] = "loop" /\ lock = t1 /\ pc[t2] = "idle"
    /\ ~AllResolved
    /\ \E y \in Rows, x \in Cols : Resolved(x, y)

\* C8: a generate_layout run that replays the draws of the recorded run,
\* and was called with the same pre-constraints, ends with the same variant
\* at every position and has consumed the same number of draws, whatever
\* grid and wave it started from.
C8_Deterministic ==
  (GenerateReturned /\ mode = "replay" /\ pre_at_call = saved.pre) =>
     (state.grid = saved.grid /\ used = saved.used)

\* a replayed run, called with a pre-constraint like the recorded run, that
\* collapsed cells and forced others
C8_Witness ==
  /\ GenerateReturned
  /\ mode = "replay"
  /\ pre_at_call = saved.pre
  /\ pre_at_call[0][0] # None
  /\ used > 3 * NumSeeds
  /\ forced # {}

\* C9: clear_layout leaves a state that another clear would not change, in
\* which get_tile_at returns -1 for every (x, y) and every wave cell holds
\* all 11 variants.
C9_ResetIdempotent ==
  [][\A t \in Callers :
       clear_layout(t) =>
         /\ WfcState_clear(state') = state'
         /\ \A x \in XInputs, y \in YInputs : GetTileAtResult(state', x, y) = -1
         /\ \A y \in Rows, x \in Cols :
              /\ Len(state'.wave[y][x]) = 11
              /\ {state'.wave[y][x][i] : i \in 1 .. 11} = TileType]_vars

\* clear_layout has acted after a layout had been generated
C9_Witness ==
  /\ ret.op = "clear_layout"
  /\ used > 3 * NumSeeds
  /\ \A y \in Rows, x \in Cols : ~Resolved(x, y)

\* C10: a successful set_pre_constraint and clear_pre_constraints leave the
\* grid and every wave cell unchanged, so get_tile_at returns what it
\* returned before, and the caller goes on to return: no generation starts.
C10_PreConstraintOpsFrame ==
  [][\A t \in Callers :
       ( \/ /\ \E p \in PinInputs, c \in CodeInputs :
                 set_pre_constraint(t, p[1], p[2], c)
            /\ ret'.val = <<TRUE>>
         \/ clear_pre_constraints(t) )
       => /\ state'.grid = state.grid
          /\ state'.wave = state.wave
          /\ \A x \in XInputs, y \in YInputs :
               GetTileAtResult(state', x, y) = GetTileAtResult(state, x, y)
          /\ pc'[t] = "return"]_vars

\* a successful set_pre_constraint on a generated layout, the new
\* pre-constraint differing from the tile resolved at its cell
C10_Witness ==
  /\ ret.op = "set_pre_constraint"
  /\ ret.val = <<TRUE>>
  /\ AllResolved
  /\ \E y \in Rows, x \in Cols :
       /\ state.pre_constraints[y][x] # None
       /\ state.pre_constraints[y][x] # state.grid[y][x]

\* C11: get_tile_at returns for every (x, y) and leaves the state as it
\* was: -1 when (x, y) is outside the grid or the cell is unresolved, else
\* the code in 0 .. 10 of the variant stored in grid[y][x].
C11_TileAtTotal ==
  [][\A t \in Callers, x \in XInputs, y \in YInputs :
       get_tile_at(t, x, y) =>
         /\ state' = state
         /\ IF x \in Cols /\ y \in Rows /\ state.grid[y][x] # None
              THEN /\ ret'.val[1] \in 0 .. 10
                   /\ TileFromI32(ret'.val[1]) = state.grid[y][x]
              ELSE ret'.val = <<-1>>]_vars

\* get_tile_at has returned the code of a collapsed wall, corner or door
C11_Witness ==
  /\ ret.op = "get_tile_at"
  /\ ret.val[1] \in 2 .. 10
  /\ used > 3 * NumSeeds

\* C12: in every reachable state, between any two steps of generate_layout
\* included, a cell whose grid entry holds a variant v has the wave cell
\* <<v>>: exactly that one variant.
C12_WaveCoherent ==
  \A y \in Rows, x \in Cols :
    Resolved(x, y) => state.wave[y][x] = <<state.grid[y][x][1]>>

\* the final sweep is under way on a grid that holds a seeded grass cell, a
\* collapsed wall, corner or door, and a cell forced to Floor
C12_Witness ==
  /\ \E t \in Callers : pc[t] = "sweep"
  /\ forced # {}
  /\ \E y \in Rows, x \in Cols : state.grid[y][x] = Some("Grass")
  /\ \E y \in Rows, x \in Cols :
       Resolved(x, y) /\ state.grid[y][x][1] \notin {"Grass", "Floor"}

\* C13: within one generate_layout run, after its clear, a cell whose grid
\* entry holds a variant keeps exactly that variant in every later step of
\* the run (seeding, propagation, main loop, final sweep).
C13_CollapseMonotonic ==
  [][(\E t \in Callers : GenerateRunning(t)) =>
       \A y \in Rows, x \in Cols :
         Resolved(x, y) => state'.grid[y][x] = state.grid[y][x]]_vars

\* the final sweep has forced a cell while collapsed cells were on the grid
C13_Witness ==
  /\ \E t \in Callers : pc[t] = "sweep" /\ cur[t] > 0
  /\ forced # {}
  /\ used > 3 * NumSeeds
  /\ \E y \in Rows, x \in Cols : Resolved(x, y) /\ <<x, y>> \notin forced

\* the cell numbers (row-major) of the unresolved cells of positive entropy
Selectable ==
  {i \in 0 .. NumCells - 1 :
     /\ ~Resolved(i % Width, i \div Width)
     /\ Len(state.wave[i \div Width][i % Width]) > 0}

EntropyAt(i) == Len(state.wave[i \div Width][i % Width])

\* C14: find_lowest_entropy returns nothing exactly when no unresolved cell
\* has positive entropy; otherwise it returns an unresolved cell of positive
\* entropy, minimal among those cells, and the first in row-major order
\* among the cells tied at the minimum.
C14_LowestEntropyFirst ==
  LET r == find_lowest_entropy(state)
  IN IF Selectable = {}
       THEN r = None
       ELSE \E i \in Selectable :
              /\ r = Some(<<i % Width, i \div Width>>)
              /\ \A j \in Selectable :
                   /\ EntropyAt(i) <= EntropyAt(j)
                   /\ EntropyAt(j) = EntropyAt(i) => i <= j

\* the main loop is about to select: the minimum is tied, a cell of larger
\* entropy comes earlier in the scan, and the grid also holds a resolved
\* cell, which the scan skips
C14_Witness ==
  /\ \E t \in Callers : pc[t] = "loop"
  /\ \E i, j, k \in Selectable :
       /\ i < j /\ j < k
       /\ EntropyAt(i) > EntropyAt(j)
       /\ EntropyAt(j) = EntropyAt(k)
       /\ \A m \in Selectable : EntropyAt(j) <= EntropyAt(m)
  /\ \E y \in Rows, x \in Cols : Resolved(x, y)

\* the cell the next step of caller t calls propagate_constraints on, if any
PropagationSource(t) ==
  LET x == cur[t] % Width
      y == cur[t] \div Width
  IN CASE pc[t] = "propagate" -> IF Resolved(x, y) THEN Some(<<x, y>>) ELSE None
       [] pc[t] = "loop" -> find_lowest_entropy(state)
       [] pc[t] = "sweep" -> IF Resolved(x, y) THEN None ELSE Some(<<x, y>>)
       [] OTHER -> None

\* C15: a step that propagates from the cell (x, y), resolved to the variant
\* t, leaves each in-bounds unresolved neighbour with its previous wave cell
\* restricted to the variants whose edge facing (x, y) equals the edge of t
\* facing the neighbour: south against t's north for the north neighbour,
\* north against south, west against east, east against west.
C15_PropagationStep ==
  [][\A c \in Callers, y \in Rows, x \in Cols :
       PropagationSource(c) = Some(<<x, y>>) =>
         LET t == get_tile_edges(state'.grid[y][x][1])
         IN /\ (y > 0 /\ state'.grid[y - 1][x] = None) =>
                 state'.wave[y - 1][x] =
                   SelectSeq(state.wave[y - 1][x],
                             LAMBDA v : get_tile_edges(v).south = t.north)
            /\ (y < Height - 1 /\ state'.grid[y + 1][x] = None) =>
                 state'.wave[y + 1][x] =
                   SelectSeq(state.wave[y + 1][x],
                             LAMBDA v : get_tile_edges(v).north = t.south)
            /\ (x < Width - 1 /\ state'.grid[y][x + 1] = None) =>
                 state'.wave[y][x + 1] =
                   SelectSeq(state.wave[y][x + 1],
                             LAMBDA v : get_tile_edges(v).west = t.east)
            /\ (x > 0 /\ state'.grid[y][x - 1] = None) =>
                 state'.wave[y][x - 1] =
                   SelectSeq(state.wave[y][x - 1],
                             LAMBDA v : get_tile_edges(v).east = t.west)]_vars

\* the main loop has collapsed a cell and the propagation from it left an
\* unresolved cell with some, but not all, of its non-grass variants
C15_Witness ==
  /\ \E t \in Callers : pc[t] = "loop"
  /\ used > 3 * NumSeeds
  /\ depth = 2
  /\ \E y \in Rows, x \in Cols :
       ~Resolved(x, y) /\ Len(state.wave[y][x]) \in 1 .. 9

\* the in-bounds neighbours of (x, y): position, the neighbour's edge that
\* faces (x, y), and the edge of (x, y) that faces the neighbour
Adjacent(x, y) ==
  {n \in {<<x, y - 1, "south", "north">>, <<x, y + 1, "north", "south">>,
          <<x + 1, y, "west", "east">>, <<x - 1, y, "east", "west">>} :
     n[1] \in Cols /\ n[2] \in Rows}

WaveSet(st, x, y) == {st.wave[y][x][i] : i \in 1 .. Len(st.wave[y][x])}

\* C16 (as claimed): when a propagation from (x, y) shrinks the wave cell of
\* an unresolved neighbour n, the nested call from n narrows the unresolved
\* neighbours of n by n's shrunk wave cell: after the step each variant
\* left in such a cell m has an edge equal to the facing edge of some
\* variant still possible in n.
C16_CascadeNarrows ==
  [][\A c \in Callers, y \in Rows, x \in Cols :
       PropagationSource(c) = Some(<<x, y>>) =>
         \A n \in Adjacent(x, y) :
           ( /\ state'.grid[n[2]][n[1]] = None
             /\ state'.wave[n[2]][n[1]] # state.wave[n[2]][n[1]] ) =>
             \A m \in Adjacent(n[1], n[2]) :
               ( /\ <<m[1], m[2]>> # <<x, y>>
                 /\ state'.grid[m[2]][m[1]] = None ) =>
                 \A v \in WaveSet(state', m[1], m[2]) :
                   \E u \in WaveSet(state', n[1], n[2]) :
                     get_tile_edges(v)[m[3]] = get_tile_edges(u)[m[4]]]_vars

\* C16 (what the code does): a step that propagates from (x, y) changes no
\* wave cell other than that of (x, y) and of its four neighbours.
C16_NoCascade ==
  [][\A c \in Callers, y \in Rows, x \in Cols :
       PropagationSource(c) = Some(<<x, y>>) =>
         \A my \in Rows, mx \in Cols :
           ( /\ <<mx, my>> # <<x, y>>
             /\ \A n \in Adjacent(x, y) : <<n[1], n[2]>> # <<mx, my>> ) =>
             state'.wave[my][mx] = state.wave[my][mx]]_vars

\* C17: when generate_layout returns, every cell that had no pre-constraint
\* when it was called and that the grass mask does not mark holds a variant
\* other than Grass, whether collapse or the Floor fallback resolved it.
C17_NonGrassNeverGrass ==
  \A t \in Callers :
    (pc[t] = "return" /\ ret.op = "generate_layout") =>
      \A y \in Rows, x \in Cols :
        (pre_at_call[y][x] = None /\ ~grass_map[t][y][x]) =>
          (Resolved(x, y) /\ state.grid[y][x] # Some("Grass"))

\* a finished run whose mask marks some cells and not others, with a cell
\* off the mask resolved by collapse and another by the fallback
C17_Witness ==
  \E t \in Callers :
    /\ pc[t] = "return" /\ ret.op = "generate_layout"
    /\ \E y \in Rows, x \in Cols : grass_map[t][y][x]
    /\ \E y \in Rows, x \in Cols :
         ~grass_map[t][y][x] /\ <<x, y>> \notin forced
    /\ \E y \in Rows, x \in Cols :
         ~grass_map[t][y][x] /\ <<x, y>> \in forced

\* C18: from the exit of the main loop to the end of the final sweep every
\* unresolved cell has an empty wave cell; the sweep visits the cells in
\* row-major order, sets each unresolved one to Floor with the wave cell
\* <<Floor>> and propagates from it, and leaves the resolved ones alone.
C18_FinalSweep ==
  /\ [](\A t \in Callers :
          pc[t] = "sweep" =>
            \A y \in Rows, x \in Cols :
              /\ ~Resolved(x, y) => state.wave[y][x] = << >>
              /\ y * Width + x < cur[t] => Resolved(x, y))
  /\ [][\A t \in Callers :
          pc[t] = "sweep" =>
            LET x == cur[t] % Width
                y == cur[t] \div Width
            IN /\ IF Resolved(x, y)
                    THEN state' = state
                    ELSE /\ state'.grid = [state.grid EXCEPT ![y][x] = Some("Floor")]
                         /\ state'.wave[y][x] = <<"Floor">>
                         /\ state' = propagate_constraints(
                              [state EXCEPT !.grid[y][x] = Some("Floor"),
                                            !.wave[y][x] = <<"Floor">>], x, y).st
               /\ \/ pc'[t] = "sweep" /\ cur'[t] = cur[t] + 1
                  \/ pc'[t] = "return" /\ cur[t] = NumCells - 1]_vars

\* the sweep has forced one cell to Floor and another unresolved cell is
\* still ahead of it
C18_Witness ==
  \E t \in Callers :
    /\ pc[t] = "sweep"
    /\ forced # {}
    /\ \E y \in Rows, x \in Cols : ~Resolved(x, y) /\ y * Width + x >= cur[t]

\* C19: whenever the main loop selects a cell its wave cell is non-empty, so
\* collapse yields a variant: every main-loop iteration takes one draw,
\* stores a member of the selected cell's wave cell in the grid, and never
\* takes the Floor fallback branch.
C19_LoopFallbackUnreachable ==
  [][\A t \in Callers, y \in Rows, x \in Cols :
       (pc[t] = "loop" /\ find_lowest_entropy(state) = Some(<<x, y>>)) =>
         /\ state.wave[y][x] # << >>
         /\ used' = used + 1
         /\ forced' = forced
         /\ Resolved(x, y)'
         /\ state'.grid[y][x][1] \in WaveSet(state, x, y)]_vars

\* the main loop has collapsed a cell and goes on selecting while an
\* unresolved cell of entropy 0 is on the grid
C19_Witness ==
  /\ \E t \in Callers : pc[t] = "loop"
  /\ used > 3 * NumSeeds
  /\ Selectable # {}
  /\ \E y \in Rows, x \in Cols : ~Resolved(x, y) /\ state.wave[y][x] = << >>

\* C20: collapse on an empty wave cell returns nothing and leaves it empty;
\* on a non-empty wave cell, for every draw r / RandDenom in [0, 1), it
\* returns the variant at index floor(r * size), which is in range and so a
\* member of the cell, and leaves exactly that variant.  Checked for every
\* wave cell of every reachable state and every draw.
C20_Collapse ==
  \A y \in Rows, x \in Cols, r \in RandomDraws :
    LET p == state.wave[y][x]
        c == collapse(p, r)
    IN IF p = << >>
         THEN c.tile = None /\ c.possible_tiles = << >>
         ELSE \E k \in 0 .. Len(p) - 1 :
                /\ k * RandDenom <= r * Len(p)
                /\ r * Len(p) < (k + 1) * RandDenom
                /\ c.tile = Some(p[k + 1])
                /\ c.possible_tiles = <<p[k + 1]>>

\* the main loop has collapsed a cell, and the grid holds an empty wave cell
\* and wave cells of several sizes above 1
C20_Witness ==
  /\ \E t \in Callers : pc[t] = "loop"
  /\ used > 3 * NumSeeds
  /\ \E y \in Rows, x \in Cols : state.wave[y][x] = << >>
  /\ \E y1, y2 \in Rows, x1, x2 \in Cols :
       /\ Len(state.wave[y1][x1]) > 1
       /\ Len(state.wave[y2][x2]) > Len(state.wave[y1][x1])

\* the cells the seeding pass of caller t's run resolves
SeededCells(t) ==
  {c \in Cols \X Rows :
     state.pre_constraints[c[2]][c[1]] # None \/ grass_map[t][c[2]][c[1]]}

\* the touching edges of (x, y) and of its neighbour n differ in state st
EdgesDiffer(st, x, y, n) ==
  get_tile_edges(st.grid[y][x][1])[n[4]] #
    get_tile_edges(st.grid[n[2]][n[1]][1])[n[3]]

\* C21: a cell that the main loop resolves by collapse gets a variant whose
\* edges equal the facing edges of every neighbour resolved before it; and
\* when generate_layout returns, every adjacent pair with unequal touching
\* edges holds a cell forced to Floor by the fallback or consists of two
\* cells resolved by the seeding pass.
C21_CollapsedCellsCompatible ==
  /\ [][\A t \in Callers, y \in Rows, x \in Cols :
          (pc[t] = "loop" /\ find_lowest_entropy(state) = Some(<<x, y>>)) =>
            \A n \in Adjacent(x, y) :
              Resolved(n[1], n[2]) => ~EdgesDiffer(state', x, y, n)]_vars
  /\ [](\A t \in Callers :
          (pc[t] = "return" /\ ret.op = "generate_layout") =>
            \A y \in Rows, x \in Cols :
              \A n \in Adjacent(x, y) :
                EdgesDiffer(state, x, y, n) =>
                  \/ <<x, y>> \in forced
                  \/ <<n[1], n[2]>> \in forced
                  \/ {<<x, y>>, <<n[1], n[2]>>} \subseteq SeededCells(t))

\* a finished run that holds two adjacent cells both resolved by collapse
\* and an adjacent pair with unequal touching edges
C21_Witness ==
  \E t \in Callers :
    /\ pc[t] = "return" /\ ret.op = "generate_layout"
    /\ \E y \in Rows, x \in Cols :
         \E n \in Adjacent(x, y) :
           /\ {<<x, y>>, <<n[1], n[2]>>} \cap (forced \cup SeededCells(t)) = {}
           /\ state.grid[y][x][1] \notin {"Floor", "Door"}
    /\ \E y \in Rows, x \in Cols :
         \E n \in Adjacent(x, y) : EdgesDiffer(state, x, y, n)

\* C22: propagate_constraints(x, y), called on any cell of any reachable
\* state, leaves the grid, the pre-constraints and the wave cell of every
\* resolved cell as they were, and leaves in every wave cell only variants
\* that were in it before; called on an unresolved cell it changes nothing.
C22_PropagationOnlyNarrows ==
  \A y \in Rows, x \in Cols :
    LET after == propagate_constraints(state, x, y).st
    IN /\ after.grid = state.grid
       /\ after.pre_constraints = state.pre_constraints
       /\ after.width = state.width /\ after.height = state.height
       /\ \A my \in Rows, mx \in Cols :
            /\ Resolved(mx, my) => after.wave[my][mx] = state.wave[my][mx]
            /\ WaveSet(after, mx, my) \subseteq WaveSet(state, mx, my)
            /\ Len(after.wave[my][mx]) <= Len(state.wave[my][mx])
       /\ ~Resolved(x, y) => after = state

\* generate_layout is part-way through: a propagation from one resolved
\* cell would narrow a neighbour, next to a cell that is resolved and a cell
\* whose wave cell is already empty
C22_Witness ==
  /\ \E t \in Callers : pc[t] \in {"propagate", "loop"}
  /\ \E y \in Rows, x \in Cols :
       /\ Resolved(x, y)
       /\ propagate_constraints(state, x, y).st # state
  /\ \E y \in Rows, x \in Cols : ~Resolved(x, y) /\ state.wave[y][x] = << >>

\* the cells of caller t's run that the seeding pass leaves unresolved and
\* that touch a cell it resolves to Grass from the mask
GrassBorder(t) ==
  {c \in (Cols \X Rows) \ SeededCells(t) :
     \E n \in Adjacent(c[1], c[2]) :
       /\ grass_map[t][n[2]][n[1]]
       /\ state.pre_constraints[n[2]][n[1]] = None}

\* C23: a cell without pre-constraint, off the grass mask and next to a cell
\* seeded as Grass has an empty wave cell once the initial propagation pass
\* is over, stays unresolved and unselected all through the main loop, and
\* is resolved to Floor by the final sweep.
C23_GrassBorderForced ==
  \A t \in Callers :
    \A c \in GrassBorder(t) :
      /\ pc[t] = "loop" =>
           /\ ~Resolved(c[1], c[2])
           /\ state.wave[c[2]][c[1]] = << >>
           /\ find_lowest_entropy(state) # Some(c)
      /\ (pc[t] = "return" /\ ret.op = "generate_layout") =>
           /\ c \in forced
           /\ state.grid[c[2]][c[1]] = Some("Floor")

\* a finished run with cells on the grass border and a collapsed cell off it
C23_Witness ==
  \E t \in Callers :
    /\ pc[t] = "return" /\ ret.op = "generate_layout"
    /\ GrassBorder(t) # {}
    /\ used > 3 * NumSeeds
    /\ (Cols \X Rows) \ (SeededCells(t) \cup GrassBorder(t)) # {}

====
